---- MODULE Spec2Model ----
(***************************************************************************)
(* A model of the placement-mail alert service: the placement analysis     *)
(* (app/filters.py, app/llm_filter.py), the attachment scanner             *)
(* (app/attachment_processor.py), the profile store and its HTTP endpoint  *)
(* (app/llm_filter.py, app/main.py) and the polling cycle                  *)
(* (app/email_listener.py, app/main.py, app/notifier/whatsapp.py).         *)
(*                                                                         *)
(* Python strings are TLA+ strings; Python values that may be of several   *)
(* types (the fields of a JSON document) are tagged records.               *)
(***************************************************************************)
EXTENDS Integers, Sequences, FiniteSets, TLC

VARIABLES
    \* ---- placement analysis (one call of analyze_placement_email) ----
    KEYWORDS,          \* app.config.KEYWORDS, loaded once at import
    GEMINI_AVAILABLE,  \* llm_filter.GEMINI_AVAILABLE, decided once at import
    subject, sender, body,   \* the arguments of the call
    response,          \* what the text-generation service did for this call
    analysis,          \* the returned dictionary (NoResult before the call)
    apc                \* "ready" | "done" (analyze_placement_email returned)
                       \* | "kwdone" (_fallback_analysis_keywords returned)

avars == <<KEYWORDS, GEMINI_AVAILABLE, subject, sender, body, response, analysis, apc>>

VARIABLES
    \* ---- attachment scan (one call of process_excel_attachments) ----
    attachments,   \* msg.attachments: a sequence of [filename, payload]
    result,        \* the result dictionary of process_excel_attachments
    idx,           \* the position of the for loop in attachments
    spc,           \* "start" | "loop" | "done" (the result was returned) |
                   \* "formatted" (the result was rendered)
    tempFiles,     \* the temporary files on disk, named by the attachment's position
    searched,      \* history: the positions _search_excel_content was called for
    foundFrom,     \* history: the position behind each entry of found_in_files
    listRaised,    \* history: list(msg.attachments) raised
    searchEnv,     \* history: what the file system did in the last search
    summary        \* what format_attachment_summary returned for result

svars == <<attachments, result, idx, spc, tempFiles, searched, foundFrom, listRaised,
           searchEnv, summary>>

VARIABLES
    \* ---- profile store and its callers ----
    heap,          \* the dictionaries: "store" is the object STUDENT_PROFILE names,
                   \* "copy" the dictionary last returned to a caller
    callerRef,     \* the object the last caller of the store functions was handed
    http,          \* the last request to /profile and its response
    lastCall       \* history: the last operation on the profile

pvars == <<heap, callerRef, http, lastCall>>

VARIABLES
    \* ---- polling loop (main.poll_email_loop, check_for_new_emails) ----
    inbox,          \* the mailbox: a sequence of messages, each with its seen flag
    fetchMarksSeen, \* whether fetching a message sets its seen flag on the server
    lpc,            \* "idle" (the loop is about to check) | "cycle" | "sleep"
    fetched,        \* the positions in inbox the cycle iterates over
    pos,            \* the position of the for loop in fetched
    processed,      \* history: what the cycle did for each message, in order; the
                    \* arguments and the result of the last analysis are in
                    \* subject, sender, body, response and analysis
    cycleError,     \* the exception the cycle caught at line 54 ("none" if none)
    cycles          \* completed cycles

mvars == <<inbox, fetchMarksSeen, lpc, fetched, pos, processed, cycleError, cycles>>

vars == <<avars, svars, pvars, mvars>>

-----------------------------------------------------------------------------
(* Python strings *)

UPPERCASE == "ABCDEFGHIJKLMNOPQRSTUVWXYZ"
LOWERCASE == "abcdefghijklmnopqrstuvwxyz"

CharAt(s, i) == SubSeq(s, i, i)

\* The lower-case letter of each upper-case letter, and the converse.
ToLower == [c \in {CharAt(UPPERCASE, i) : i \in 1..Len(UPPERCASE)} |->
               CharAt(LOWERCASE, CHOOSE i \in 1..Len(UPPERCASE) : CharAt(UPPERCASE, i) = c)]
ToUpper == [c \in {CharAt(LOWERCASE, i) : i \in 1..Len(LOWERCASE)} |->
               CharAt(UPPERCASE, CHOOSE i \in 1..Len(LOWERCASE) : CharAt(LOWERCASE, i) = c)]

IsUpper(c) == c \in DOMAIN ToLower
IsLower(c) == c \in DOMAIN ToUpper
IsCased(c) == IsUpper(c) \/ IsLower(c)

LowerChar(c) == IF IsUpper(c) THEN ToLower[c] ELSE c

UpperChar(c) == IF IsLower(c) THEN ToUpper[c] ELSE c

\* str.lower()
RECURSIVE lower(_)
lower(s) == IF s = "" THEN "" ELSE LowerChar(CharAt(s, 1)) \o lower(Tail(s))

\* str.title(): a cased character is upper-cased when it starts a run of cased
\* characters and lower-cased inside one.
RECURSIVE TitleFrom(_, _)
TitleFrom(s, prevCased) ==
    IF s = "" THEN ""
    ELSE LET c == CharAt(s, 1)
         IN  (IF prevCased THEN LowerChar(c) ELSE UpperChar(c))
                 \o TitleFrom(Tail(s), IsCased(c))

title(s) == TitleFrom(s, FALSE)

\* sub in s
Contains(sub, s) ==
    \E i \in 0..(Len(s) - Len(sub)) : SubSeq(s, i + 1, i + Len(sub)) = sub

\* s.endswith(suffix)
endswith(s, suffix) ==
    /\ Len(suffix) <= Len(s)
    /\ SubSeq(s, Len(s) - Len(suffix) + 1, Len(s)) = suffix

\* s.split(sep) for a one-character separator: the sequence of pieces
RECURSIVE split(_, _)
split(s, sep) ==
    IF ~Contains(sep, s) THEN <<s>>
    ELSE LET i == CHOOSE k \in 1..Len(s) :
                     /\ CharAt(s, k) = sep
                     /\ \A j \in 1..(k - 1) : CharAt(s, j) # sep
         IN  <<SubSeq(s, 1, i - 1)>> \o split(SubSeq(s, i + 1, Len(s)), sep)

\* any(x in s for x in items), items a sequence of strings
AnyIn(items, s) == \E i \in 1..Len(items) : Contains(items[i], s)

-----------------------------------------------------------------------------
(* Python values and dictionaries *)

PyNone    == [t |-> "none", b |-> FALSE, s |-> "", n |-> 0]
PyBool(x) == [t |-> "bool", b |-> x, s |-> "", n |-> 0]
PyStr(x)  == [t |-> "str", b |-> FALSE, s |-> x, n |-> 0]
PyNum(x)  == [t |-> "num", b |-> FALSE, s |-> "", n |-> x]

\* bool(v): the truth value Python's `if` sees
Truthy(v) ==
    CASE v.t = "bool" -> v.b
      [] v.t = "str"  -> v.s # ""
      [] v.t = "num"  -> v.n # 0
      [] OTHER        -> FALSE

\* d.get(key, default)
DictGet(d, key, default) == IF key \in DOMAIN d THEN d[key] ELSE default

\* d[key] = value
DictSet(d, key, value) ==
    [k \in (DOMAIN d) \cup {key} |-> IF k = key THEN value ELSE d[k]]

-----------------------------------------------------------------------------
(* The classification result and the two heuristic analyses *)

FIELDS == <<"is_placement_related", "company", "role", "deadline", "salary",
            "location", "type", "requirements">>

FieldNames == {FIELDS[i] : i \in 1..Len(FIELDS)}

NoResult == [none |-> PyNone]

\* The dictionary literal both heuristics return.
BasicResult(is_placement, company, role) ==
    [k \in FieldNames |->
        CASE k = "is_placement_related" -> PyBool(is_placement)
          [] k = "company"              -> PyStr(company)
          [] k = "role"                 -> PyStr(role)
          [] OTHER                      -> PyNone]

LastIn(keywords, text) ==
    LET hits == {i \in 1..Len(keywords) : Contains(keywords[i], text)}
    IN  IF hits = {} THEN 0 ELSE CHOOSE i \in hits : \A j \in hits : i >= j

\* The first keyword of the list, in list order, that occurs in text.
FirstIn(keywords, text) ==
    LET hits == {i \in 1..Len(keywords) : Contains(keywords[i], text)}
    IN  IF hits = {} THEN 0 ELSE CHOOSE i \in hits : \A j \in hits : i <= j

_fallback_placement_analysis(subj, sndr) ==
    LET placement_indicators == <<"placement", "recruitment", "hiring", "career", "job",
                                  "internship", "cdc", "hr", "interview", "offer">>
        text_to_check == lower(subj \o " " \o sndr)
        is_placement == AnyIn(placement_indicators, text_to_check)
        domain == lower(split(sndr, "@")[2])
        company == IF Contains("@", sndr)
                      /\ ~Contains("placements", domain) /\ ~Contains("noreply", domain)
                   THEN title(split(domain, ".")[1])
                   ELSE "Unknown"
        role_keywords == <<"engineer", "developer", "analyst", "intern", "manager",
                           "associate">>
        hit == FirstIn(role_keywords, lower(subj))
        role == IF hit = 0 THEN "Position" ELSE title(role_keywords[hit])
    IN  BasicResult(is_placement, company, role)

KeywordMatcherCaseSensitive(subj, sndr, keywords) ==
    \/ AnyIn(<<"placements", "cdc", "recruitment", "hr", "careers">>, sndr)
    \/ \E i \in 1..Len(keywords) : Contains(keywords[i], subj)

\* The sender-pattern and keyword test of _fallback_analysis_keywords.
KeywordMatcher(subj, sndr, keywords) ==
    LET sender_lower == lower(sndr)
        subject_lower == lower(subj)
    IN  \/ AnyIn(<<"placements", "cdc", "recruitment", "hr", "careers">>, sender_lower)
        \/ \E i \in 1..Len(keywords) : Contains(lower(keywords[i]), subject_lower)

_fallback_analysis_keywords(subj, sndr) ==
    LET is_placement == KeywordMatcher(subj, sndr, KEYWORDS)
        domain == lower(split(sndr, "@")[2])
        company == IF Contains("@", sndr)
                      /\ ~Contains("placements", domain) /\ ~Contains("noreply", domain)
                   THEN title(split(domain, ".")[1])
                   ELSE "Unknown"
        role_keywords == <<"engineer", "developer", "analyst", "intern", "manager",
                           "associate">>
        hit == FirstIn(role_keywords, lower(subj))
        role == IF hit = 0 THEN "Position" ELSE title(role_keywords[hit])
    IN  BasicResult(is_placement, company, role)

-----------------------------------------------------------------------------
(* The text-generation service and the JSON documents it may answer with *)

\* A JSON document as json.loads returns it: a dict (fields), a list or a str
\* (names: the field names that are elements, resp. substrings, of it), or a
\* scalar (a number, true, false, null).
JsonObject(f)  == [kind |-> "object", fields |-> f, names |-> DOMAIN f]
JsonArray(ns)  == [kind |-> "array", fields |-> <<>>, names |-> ns]
JsonString(ns) == [kind |-> "string", fields |-> <<>>, names |-> ns]
JsonScalar     == [kind |-> "scalar", fields |-> <<>>, names |-> {}]
NotJson        == [kind |-> "notjson", fields |-> <<>>, names |-> {}]
NoText         == [kind |-> "empty", fields |-> <<>>, names |-> {}]

\* What client.models.generate_content did: raised, or answered with a text
\* lead \o doc \o trail.
ServiceRaises == [kind |-> "raises", lead |-> "", doc |-> NoText, trail |-> ""]
NotCalled     == [kind |-> "notcalled", lead |-> "", doc |-> NoText, trail |-> ""]
Text(lead, doc, trail) == [kind |-> "text", lead |-> lead, doc |-> doc, trail |-> trail]

\* An outcome of a Python call: a returned value or a raised exception.
Return(v) == [exc |-> "none", val |-> v]
Raise(e)  == [exc |-> e, val |-> NoResult]

\* key in result, for the value json.loads returned (TypeError for a scalar
\* is raised by the caller).
In(key, doc) == key \in doc.names

\* The markers a response text may start and end with: the opening fence with
\* its json tag, a bare fence (three backticks), or other text.
FENCE_JSON == "[fence]json"
FENCE      == "[fence]"

\* Lines 151-158: strip the code fence, then json.loads.
CleanedText(text) ==
    [text EXCEPT !.lead  = IF text.lead = FENCE_JSON THEN "" ELSE text.lead,
                 !.trail = IF text.trail = FENCE THEN "" ELSE text.trail]

json_loads(text) ==
    IF text.lead = "" /\ text.trail = ""
       /\ text.doc.kind \in {"object", "array", "string", "scalar"}
    THEN Return(text.doc)
    ELSE Raise("JSONDecodeError")

\* Lines 166-179: fill the missing fields with their defaults.
FillDefaultsSkipped(f) == f

FillDefaults(f) ==
    [k \in (DOMAIN f) \cup FieldNames |->
        IF k \in DOMAIN f THEN f[k]
        ELSE CASE k = "is_placement_related" -> PyBool(FALSE)
               [] k = "company"              -> PyStr("Unknown")
               [] k = "role"                 -> PyStr("Position")
               [] OTHER                      -> PyNone]

\* Lines 149-189: the inner try block and its except json.JSONDecodeError.
ParseResponse(subj, sndr, text) ==
    LET loaded == json_loads(CleanedText(text))
        parsed == loaded.val
    IN  IF loaded.exc = "JSONDecodeError"
        THEN Return(_fallback_placement_analysis(subj, sndr))
        ELSE CASE parsed.kind = "scalar" -> Raise("TypeError")
               [] ~In("is_placement_related", parsed) ->
                      Return(_fallback_placement_analysis(subj, sndr))
               [] parsed.kind = "object" -> Return(FillDefaults(parsed.fields))
               [] \E k \in FieldNames : ~In(k, parsed) -> Raise("TypeError")
               [] OTHER -> Raise("AttributeError")

\* Lines 130-184: the body of the outer try block.
LlmTry(subj, sndr, bdy, resp) ==
    IF ~GEMINI_AVAILABLE
    THEN Return(_fallback_placement_analysis(subj, sndr))
    ELSE IF resp.kind = "raises" THEN Raise("ServiceError")
    ELSE IF resp.doc.kind = "empty" /\ resp.lead = "" /\ resp.trail = ""
    THEN Return(_fallback_placement_analysis(subj, sndr))
    ELSE ParseResponse(subj, sndr, resp)

analyze_placement_email_llm(subj, sndr, bdy, resp) ==
    LET r == LlmTry(subj, sndr, bdy, resp)
    IN  IF r.exc # "none"
        THEN Return(_fallback_placement_analysis(subj, sndr))
        ELSE r

\* filters.analyze_placement_email: the adapter first, the keyword analysis
\* if it raises.
analyze_placement_email(subj, sndr, bdy, resp) ==
    LET r == analyze_placement_email_llm(subj, sndr, bdy, resp)
    IN  IF r.exc # "none"
        THEN _fallback_analysis_keywords(subj, sndr)
        ELSE r.val

-----------------------------------------------------------------------------
(* The attachment scanner *)

SEARCH_TERMS == <<"Akkilesh A", "22BCE1385", "Akkilesh", "22BCE1385">>

excel_extensions == <<".xlsx", ".xls", ".xlsm", ".xlsb">>

\* filename is "" for an attachment without a name (None).
_is_excel_file(filename) ==
    /\ filename # ""
    /\ \E e \in 1..Len(excel_extensions) : endswith(lower(filename), excel_extensions[e])

\* ' '.join(cells)
RECURSIVE join(_)
join(cells) ==
    IF cells = <<>> THEN ""
    ELSE IF Len(cells) = 1 THEN cells[1]
    ELSE cells[1] \o " " \o join(Tail(cells))

\* pd.read_excel reads the first row of a sheet as its column labels: the
\* values of the frame are the cells of the rows below it.
sheet_text_combined(sheet) == lower(join(sheet.cells))

\* Lines 120-124: the terms found in one sheet, in the order of SEARCH_TERMS.
found_terms(sheet) ==
    LET text == sheet_text_combined(sheet)
    IN  SelectSeq(SEARCH_TERMS, LAMBDA term : Contains(lower(term), text))

\* Lines 112-130: one match entry for each sheet that holds a term.
RECURSIVE SearchSheets(_)
SearchSheets(sheets) ==
    IF sheets = <<>> THEN <<>>
    ELSE LET terms == found_terms(sheets[1])
         IN  (IF terms # <<>>
              THEN <<[sheet |-> sheets[1].name, terms_found |-> terms]>>
              ELSE <<>>) \o SearchSheets(Tail(sheets))

\* Lines 104-109: the engine is chosen by the file name; openpyxl reads the
\* xlsx container (.xlsx, .xlsm), xlrd the xls format.
ReadEngine(filename) ==
    IF endswith(lower(filename), ".xlsx") \/ endswith(lower(filename), ".xlsm")
    THEN "openpyxl" ELSE "xlrd"

CanRead(engine, format) ==
    \/ engine = "openpyxl" /\ format = "xlsx"
    \/ engine = "xlrd" /\ format = "xls"
    \/ engine = "default" /\ format \in {"xlsx", "xls", "xlsb"}

\* What the file system does during one search.
SearchEnvs ==
    [io : {"ok", "create_fails", "write_fails"}, unlink_fails : BOOLEAN]

NoSearchEnv == [io |-> "none", unlink_fails |-> FALSE]

SearchResult(found, matches, leaked) ==
    [exc |-> "none", found |-> found, matches |-> matches, leaked |-> leaked]

\* A variant in which a read error leaves the function instead of being
\* caught at line 132.
search_excel_content_raising(file_content, filename, env) ==
    IF env.io = "ok" /\ ~CanRead(ReadEngine(filename), file_content.format)
    THEN [exc |-> "ReadError", found |-> FALSE, matches |-> <<>>, leaked |-> env.unlink_fails]
    ELSE IF env.io = "ok"
    THEN SearchResult(SearchSheets(file_content.sheets) # <<>>,
                      SearchSheets(file_content.sheets), env.unlink_fails)
    ELSE SearchResult(FALSE, <<>>, env.io = "write_fails")

\* _search_excel_content: the found flag, the matches, and whether the
\* temporary file is still on disk when the function returns.
_search_excel_content(file_content, filename, env) ==
    IF env.io = "create_fails"
    THEN \* NamedTemporaryFile raised: no file, caught at line 148
         SearchResult(FALSE, <<>>, FALSE)
    ELSE IF env.io = "write_fails"
    THEN \* write raised inside the with block: the file is closed, not deleted,
         \* and the finally clause that unlinks it is never entered
         SearchResult(FALSE, <<>>, TRUE)
    ELSE IF CanRead(ReadEngine(filename), file_content.format)
    THEN LET matches == SearchSheets(file_content.sheets)
         IN  SearchResult(matches # <<>>, matches, env.unlink_fails)
    ELSE \* lines 132-139: the retry with the default engine reads the file, or
         \* fails, and in both cases searches nothing
         SearchResult(FALSE, <<>>, env.unlink_fails)

NewResult ==
    [has_attachments |-> FALSE, excel_attachments |-> 0, name_found |-> FALSE,
     found_in_files |-> <<>>, total_attachments |-> 0, error |-> PyNone]

RecordFoundAlways(res, filename, found_info) ==
    [res EXCEPT !.found_in_files =
        Append(@, [filename |-> filename, matches |-> found_info.matches])]

\* Lines 59-64.
RecordFound(res, filename, found_info) ==
    IF found_info.found
    THEN [res EXCEPT !.name_found = TRUE,
                     !.found_in_files =
                         Append(@, [filename |-> filename, matches |-> found_info.matches])]
    ELSE res

CountExcelAll(res, filename) == [res EXCEPT !.excel_attachments = @ + 1]

\* Lines 54-55.
CountExcel(res, filename) ==
    IF _is_excel_file(filename) THEN [res EXCEPT !.excel_attachments = @ + 1] ELSE res

\* sep.join(items)
RECURSIVE join_with(_, _)
join_with(sep, items) ==
    IF items = <<>> THEN ""
    ELSE IF Len(items) = 1 THEN items[1]
    ELSE items[1] \o sep \o join_with(sep, Tail(items))

\* The pictograph that opens each line of the summary is written as a word
\* in brackets.
TermsLineFirstOnly(match) == "    [search] Found: " \o match.terms_found[1]

\* Lines 185-186: the line of one match entry.
TermsLine(match) == "    [search] Found: " \o join_with(", ", match.terms_found)

\* Lines 180-186: the lines of the files the terms were found in.
RECURSIVE FileLines(_)
FileLines(found_in_files) ==
    IF found_in_files = <<>> THEN <<>>
    ELSE LET file_info == found_in_files[1]
         IN  <<"  [file] " \o file_info.filename>>
                 \o [m \in 1..Len(file_info.matches) |-> TermsLine(file_info.matches[m])]
                 \o FileLines(Tail(found_in_files))

\* Lines 190-191: the trailing note for a result whose error is set.
ErrorNote(error) == "[warning] Error processing attachments: " \o error.s

\* format_attachment_summary: None, or the lines joined by newlines.
format_attachment_summary(attachment_result) ==
    IF ~attachment_result.has_attachments THEN PyNone
    ELSE LET excel_count == attachment_result.excel_attachments
             counts == IF excel_count > 0
                       THEN <<"[clip] " \o ToString(excel_count) \o " Excel attachment"
                                 \o (IF excel_count > 1 THEN "s" ELSE "") \o " found">>
                                \o (IF attachment_result.name_found
                                    THEN <<"[found] Your name/ID found in attachments!">>
                                             \o FileLines(attachment_result.found_in_files)
                                    ELSE <<"[missing] Your name/ID not found in Excel files">>)
                       ELSE <<>>
             summary_parts == counts \o (IF Truthy(attachment_result.error)
                                         THEN <<ErrorNote(attachment_result.error)>>
                                         ELSE <<>>)
         IN  IF summary_parts = <<>> THEN PyNone
             ELSE PyStr(join_with("\n", summary_parts))

-----------------------------------------------------------------------------
(* The profile store *)

DefaultProfile ==
    [name |-> "Akkilesh A", degree |-> "BTech", year |-> "4th year",
     university |-> "VIT Chennai", graduation_year |-> "2026",
     specialization |-> "Computer Science & Engineering"]

NoObject == <<>>

ProfileIdle ==
    /\ heap = [store |-> DefaultProfile, copy |-> NoObject]
    /\ callerRef = "none"
    /\ http = [method |-> "none", body |-> <<>>, status |-> 0,
               before |-> DefaultProfile, after |-> DefaultProfile]
    /\ lastCall = "none"

\* A function's effect on the heap and the object it returns.
Returned(h, ref) == [heap |-> h, ref |-> ref]

\* STUDENT_PROFILE.copy()
CopyStore(h) == Returned([h EXCEPT !.copy = h.store], "copy")

get_student_profile(h) == CopyStore(h)

update_student_profile_any_key(h, kwargs) ==
    CopyStore([h EXCEPT !.store =
        [k \in (DOMAIN h.store) \cup (DOMAIN kwargs) |->
            IF k \in DOMAIN kwargs THEN kwargs[k] ELSE h.store[k]]])

\* Lines 266-273: a value is stored for each key the store already holds.
update_student_profile(h, kwargs) ==
    CopyStore([h EXCEPT !.store =
        [k \in DOMAIN h.store |->
            IF k \in DOMAIN kwargs THEN kwargs[k] ELSE h.store[k]]])

\* ProfileUpdate: the request body as pydantic reads it: the one declared
\* field, "" when it is not submitted; other submitted fields are dropped.
ProfileUpdate(posted) ==
    [specialization |->
        IF "specialization" \in DOMAIN posted THEN posted["specialization"] ELSE ""]

\* Line 51: the fields with a non-empty value.
NonEmpty(d) == [k \in {x \in DOMAIN d : d[x] # ""} |-> d[k]]

\* main.update_profile: the status of the response and the heap after it.
\* The HTTPException of line 54 is raised inside the try block, and the
\* except clause of line 61 answers every exception with status 500.
update_profile(h, posted) ==
    LET updates == NonEmpty(ProfileUpdate(posted))
        tried == IF updates = <<>>
                 THEN [exc |-> "HTTPException", status |-> 400, heap |-> h]
                 ELSE [exc |-> "none", status |-> 200,
                       heap |-> update_student_profile(h, updates).heap]
    IN  IF tried.exc # "none"
        THEN [exc |-> "HTTPException", status |-> 500, heap |-> tried.heap]
        ELSE tried

-----------------------------------------------------------------------------
(* The polling cycle *)

FETCH_LIMIT == 10

PollIdle ==
    /\ inbox = <<>>
    /\ fetchMarksSeen = FALSE
    /\ lpc = "stopped"
    /\ fetched = <<>>
    /\ pos = 0
    /\ processed = <<>>
    /\ cycleError = "none"
    /\ cycles = 0

\* The positions in decreasing order (reverse=True: newest first).
RECURSIVE Descending(_)
Descending(S) ==
    IF S = {} THEN <<>>
    ELSE LET m == CHOOSE x \in S : \A y \in S : y <= x
         IN  <<m>> \o Descending(S \ {m})

\* Line 21: mailbox.fetch(AND(seen=False), limit=10, reverse=True)
Fetch(box) ==
    LET unseen == Descending({i \in 1..Len(box) : ~box[i].seen})
    IN  SubSeq(unseen, 1, IF Len(unseen) < FETCH_LIMIT THEN Len(unseen) ELSE FETCH_LIMIT)

\* Lines 32-49: the arguments the delivery sink is called with.
AlertArgs(subj, result_dict) ==
    [subject      |-> subj,
     company      |-> DictGet(result_dict, "company", PyStr("Unknown")),
     role         |-> DictGet(result_dict, "role", PyStr("Position")),
     deadline     |-> DictGet(result_dict, "deadline", PyNone),
     salary       |-> DictGet(result_dict, "salary", PyNone),
     location     |-> DictGet(result_dict, "location", PyNone),
     job_type     |-> DictGet(result_dict, "type", PyNone),
     requirements |-> DictGet(result_dict, "requirements", PyNone)]

cycle_except_propagates(e) == "stopped"

\* Lines 54-55: except Exception catches what the cycle raised and
\* check_for_new_emails returns; poll_email_loop goes on to its sleep.
cycle_except(e) == "sleep"

\* Line 30: if analysis.get('is_placement_related', False)
should_alert(result_dict) ==
    Truthy(DictGet(result_dict, "is_placement_related", PyBool(FALSE)))

\* send_whatsapp_placement_alert: whether the message went out. Building the
\* text raises for requirements that are truthy and have no length (line 47);
\* that and a failure of the messaging service are caught at line 64.
send_whatsapp_placement_alert(args, service_ok) ==
    /\ ~(Truthy(args.requirements) /\ args.requirements.t # "str")
    /\ service_ok

-----------------------------------------------------------------------------
(* The inputs of the analysis *)

MaxSubjectWords == 2

SubjectWords == <<"Job", "Engineer", "analyst", "Drive">>

\* The subjects of n words, joined by single spaces.
RECURSIVE WordStrings(_)
WordStrings(n) ==
    IF n = 0 THEN {""}
    ELSE LET shorter == WordStrings(n - 1)
         IN  shorter \cup {IF s = "" THEN SubjectWords[i] ELSE s \o " " \o SubjectWords[i] :
                              s \in shorter, i \in 1..Len(SubjectWords)}

Subjects ==
    WordStrings(MaxSubjectWords)
        \cup {"TCS CodeVita Contest - Win Job Offers", "Weekend Sale - Up to 70% Off",
              "three placement papers"}

Senders ==
    {"", "Placement Cell", "hr@tcs.com", "HR@Tcs.Com", "sales@amazon.com",
     "noreply@github.com", "cdc@placements.vit.ac.in", "chris@my-co.in",
     "a@b@c.com", "info@x.noreply.org"}

Bodies == {"", "Apply by March 15th."}

\* config/keywords.yaml is deployment configuration: two configurations.
KeywordConfigs == {<<>>, <<"Placement", "drive", "internship">>}

FullObject ==
    [k \in FieldNames |->
        CASE k = "is_placement_related" -> PyBool(TRUE)
          [] k = "company"              -> PyStr("Google")
          [] k = "role"                 -> PyStr("Software Engineer Intern")
          [] k = "deadline"             -> PyStr("March 15th")
          [] k = "type"                 -> PyStr("Internship")
          [] OTHER                      -> PyNone]

JsonDocs ==
    {JsonObject(FullObject),
     JsonObject([is_placement_related |-> PyBool(TRUE)]),
     JsonObject([is_placement_related |-> PyBool(FALSE)]),
     JsonObject([is_placement_related |-> PyStr("false")]),
     JsonObject([is_placement_related |-> PyNone]),
     JsonObject([is_placement_related |-> PyNum(1)]),
     JsonObject([is_placement_related |-> PyBool(TRUE), company |-> PyNone,
                 role |-> PyNum(5)]),
     JsonObject([company |-> PyStr("Google"), role |-> PyStr("Analyst")]),
     JsonObject(<<>>),
     JsonArray({}), JsonArray({"is_placement_related"}), JsonArray(FieldNames),
     JsonString({}), JsonString({"is_placement_related"}), JsonString(FieldNames),
     JsonScalar}

Responses ==
    {ServiceRaises, Text("", NoText, ""), Text("", NotJson, "")}
        \cup {Text("", d, "") : d \in JsonDocs}
        \cup {Text(FENCE_JSON, JsonObject(FullObject), FENCE),
              Text(FENCE_JSON, JsonObject(FullObject), ""),
              Text(FENCE, JsonObject(FullObject), FENCE),
              Text("Here is the analysis: ", JsonObject(FullObject), ""),
              Text(FENCE_JSON, NoText, FENCE)}

-----------------------------------------------------------------------------
(* The attachments of a message *)

MaxAttachments == 2

Sheet(name, header, cells) == [name |-> name, header |-> header, cells |-> cells]

Workbook(format, sheets) == [format |-> format, sheets |-> sheets]

Corrupt == Workbook("corrupt", <<>>)

Attachment(filename, payload) == [filename |-> filename, payload |-> payload]

AttachmentKinds ==
    {Attachment("shortlist.xlsx",
                Workbook("xlsx", <<Sheet("Sheet1", <<"Name", "Reg No">>,
                                         <<"Akkilesh A", "22BCE1385", "Bob", "21BCE0001">>)>>)),
     Attachment("RESULTS.XLSM",
                Workbook("xlsx", <<Sheet("Round1", <<"Reg No">>, <<"21BCE0001", "nan">>),
                                   Sheet("Round2", <<"Reg No">>, <<"22bce1385">>)>>)),
     Attachment("old.xls",
                Workbook("xls", <<Sheet("Sheet1", <<"Name">>, <<"Bob">>)>>)),
     Attachment("broken.xlsx", Corrupt),
     Attachment("renamed.xls",
                Workbook("xlsx", <<Sheet("Sheet1", <<"Name">>, <<"Akkilesh">>)>>)),
     Attachment("binary.xlsb",
                Workbook("xlsb", <<Sheet("Sheet1", <<"Reg No">>, <<"22BCE1385">>)>>)),
     Attachment("onerow.xlsx",
                Workbook("xlsx", <<Sheet("Sheet1", <<"22BCE1385">>, <<>>)>>)),
     Attachment("notes.pdf", Corrupt),
     Attachment("",
                Workbook("xlsx", <<Sheet("Sheet1", <<"Reg No">>, <<"22BCE1385">>)>>))}

RECURSIVE SeqsUpTo(_, _)
SeqsUpTo(S, n) ==
    IF n = 0 THEN {<<>>}
    ELSE LET shorter == SeqsUpTo(S, n - 1)
         IN  shorter \cup {Append(q, x) : q \in shorter, x \in S}

-----------------------------------------------------------------------------
(* One call of process_excel_attachments *)

ScanIdle ==
    /\ attachments = <<>>
    /\ result = NewResult
    /\ idx = 0
    /\ spc = "idle"
    /\ tempFiles = {}
    /\ searched = {}
    /\ foundFrom = <<>>
    /\ listRaised = FALSE
    /\ searchEnv = NoSearchEnv
    /\ summary = PyNone

AnalysisIdle ==
    /\ KEYWORDS = <<>>
    /\ GEMINI_AVAILABLE = FALSE
    /\ subject = ""
    /\ sender = ""
    /\ body = ""
    /\ response = NotCalled
    /\ analysis = NoResult
    /\ apc = "idle"

InitScan ==
    /\ attachments \in SeqsUpTo(AttachmentKinds, MaxAttachments)
    /\ result = NewResult
    /\ idx = 0
    /\ spc = "start"
    /\ tempFiles = {}
    /\ searched = {}
    /\ foundFrom = <<>>
    /\ listRaised = FALSE
    /\ searchEnv = NoSearchEnv
    /\ summary = PyNone
    /\ AnalysisIdle
    /\ ProfileIdle
    /\ PollIdle

\* Lines 40-47: list the attachments; an exception is caught at line 66.
ListAttachments ==
    /\ spc = "start"
    /\ \E raises \in BOOLEAN :
          /\ listRaised' = raises
          /\ IF raises
             THEN /\ result' = [result EXCEPT !.error = PyStr("cannot list attachments")]
                  /\ spc' = "done"
             ELSE IF attachments = <<>>
             THEN /\ result' = [result EXCEPT !.total_attachments = 0]
                  /\ spc' = "done"
             ELSE /\ result' = [result EXCEPT !.total_attachments = Len(attachments),
                                              !.has_attachments = TRUE]
                  /\ spc' = "loop"
    /\ idx' = 1
    /\ UNCHANGED <<attachments, tempFiles, searched, foundFrom, searchEnv, summary>>
    /\ UNCHANGED <<avars, pvars, mvars>>

\* Lines 49-64: one iteration of the loop; an exception leaving the search
\* is caught at line 66 and ends the loop.
ProcessAttachment ==
    /\ spc = "loop"
    /\ idx <= Len(attachments)
    /\ LET attachment == attachments[idx]
           filename == IF attachment.filename = "" THEN "unknown" ELSE attachment.filename
       IN  IF ~_is_excel_file(filename)
           THEN /\ result' = CountExcel(result, filename)
                /\ UNCHANGED <<tempFiles, searched, foundFrom, searchEnv, spc>>
           ELSE \E env \in SearchEnvs :
                   LET found_info == _search_excel_content(attachment.payload, filename, env)
                       counted == CountExcel(result, filename)
                   IN  /\ searchEnv' = env
                       /\ searched' = searched \cup {idx}
                       /\ tempFiles' = IF found_info.leaked THEN tempFiles \cup {idx}
                                       ELSE tempFiles
                       /\ IF found_info.exc # "none"
                          THEN /\ result' = [counted EXCEPT !.error = PyStr(found_info.exc)]
                               /\ spc' = "done"
                               /\ UNCHANGED foundFrom
                          ELSE /\ result' = RecordFound(counted, filename, found_info)
                               /\ foundFrom' =
                                     IF Len(result'.found_in_files) > Len(result.found_in_files)
                                     THEN Append(foundFrom, idx) ELSE foundFrom
                               /\ UNCHANGED spc
    /\ idx' = idx + 1
    /\ UNCHANGED <<attachments, listRaised, summary>>
    /\ UNCHANGED <<avars, pvars, mvars>>

\* Line 70, after the last attachment.
ReturnResult ==
    /\ spc = "loop"
    /\ idx > Len(attachments)
    /\ spc' = "done"
    /\ UNCHANGED <<attachments, result, idx, tempFiles, searched, foundFrom, listRaised,
                   searchEnv, summary>>
    /\ UNCHANGED <<avars, pvars, mvars>>

\* The returned result is rendered by format_attachment_summary.
FormatSummary ==
    /\ spc = "done"
    /\ summary' = format_attachment_summary(result)
    /\ spc' = "formatted"
    /\ UNCHANGED <<attachments, result, idx, tempFiles, searched, foundFrom, listRaised,
                   searchEnv>>
    /\ UNCHANGED <<avars, pvars, mvars>>

NextScan == ListAttachments \/ ProcessAttachment \/ ReturnResult \/ FormatSummary

SpecScan == InitScan /\ [][NextScan]_vars

-----------------------------------------------------------------------------
(* The profile store under its callers *)

\* Keyword arguments of direct calls of update_student_profile.
KwargSets ==
    {<<>>, [name |-> "A. Akkilesh"], [cgpa |-> "9.1"], [specialization |-> ""],
     [name |-> "A. Akkilesh", skills |-> "python"]}

\* Bodies posted to /profile.
PostBodies ==
    {<<>>, [specialization |-> ""], [specialization |-> "AI"], [name |-> "A. Akkilesh"],
     [specialization |-> "AI", cgpa |-> "9.1"], [cgpa |-> ""]}

\* What a caller may write into the dictionary it was handed.
CallerWrites == {[key |-> "name", value |-> "changed"], [key |-> "cgpa", value |-> "9.1"]}

InitProfile ==
    /\ ProfileIdle
    /\ AnalysisIdle
    /\ ScanIdle
    /\ PollIdle

CallUpdateStudentProfile ==
    /\ \E kwargs \in KwargSets :
          LET r == update_student_profile(heap, kwargs)
          IN  heap' = r.heap /\ callerRef' = r.ref
    /\ lastCall' = "update_student_profile"
    /\ UNCHANGED http
    /\ UNCHANGED <<avars, svars, mvars>>

CallGetStudentProfile ==
    /\ LET r == get_student_profile(heap)
       IN  heap' = r.heap /\ callerRef' = r.ref
    /\ lastCall' = "get_student_profile"
    /\ UNCHANGED http
    /\ UNCHANGED <<avars, svars, mvars>>

\* The caller changes, or removes a key of, the dictionary it was handed.
CallerChangesReturned ==
    /\ callerRef # "none"
    /\ \/ \E w \in CallerWrites :
             heap' = [heap EXCEPT ![callerRef] = DictSet(@, w.key, w.value)]
       \/ heap' = [heap EXCEPT ![callerRef] =
                       [k \in (DOMAIN @) \ {"degree"} |-> @[k]]]
    /\ lastCall' = "caller_write"
    /\ UNCHANGED <<callerRef, http>>
    /\ UNCHANGED <<avars, svars, mvars>>

\* GET /profile: the response carries a serialized copy.
GetProfile ==
    /\ LET r == get_student_profile(heap)
       IN  /\ heap' = r.heap
           /\ http' = [method |-> "GET", body |-> <<>>, status |-> 200,
                       before |-> heap.store, after |-> r.heap.store]
    /\ callerRef' = "none"
    /\ lastCall' = "GET"
    /\ UNCHANGED <<avars, svars, mvars>>

\* POST /profile
PostProfile ==
    /\ \E posted \in PostBodies :
          LET r == update_profile(heap, posted)
          IN  /\ heap' = r.heap
              /\ http' = [method |-> "POST", body |-> posted, status |-> r.status,
                          before |-> heap.store, after |-> r.heap.store]
    /\ callerRef' = "none"
    /\ lastCall' = "POST"
    /\ UNCHANGED <<avars, svars, mvars>>

NextProfile ==
    \/ CallUpdateStudentProfile
    \/ CallGetStudentProfile
    \/ CallerChangesReturned
    \/ GetProfile
    \/ PostProfile

SpecProfile == InitProfile /\ [][NextProfile]_vars

-----------------------------------------------------------------------------
(* The polling loop *)

MaxMessages == 2

MaxCycles == 1

Message(subj, sndr, bdy, uid) ==
    [subject |-> subj, sender |-> sndr, body |-> bdy, uid |-> uid, seen |-> FALSE]

\* uid is "" for a message the server gave no uid for.
MessageKinds ==
    {Message("Job Drive", "hr@tcs.com", "Apply by March 15th.", "101"),
     Message("Weekend Sale - Up to 70% Off", "sales@amazon.com", "", "102"),
     Message("Engineer", "a@b@c.com", "", "")}

PollResponses ==
    {ServiceRaises,
     Text(FENCE_JSON, JsonObject(FullObject), FENCE),
     Text("", JsonObject([is_placement_related |-> PyBool(FALSE)]), ""),
     Text("", JsonObject([is_placement_related |-> PyStr("false")]), "")}

NoAlert == [subject |-> "", company |-> PyNone, role |-> PyNone, deadline |-> PyNone,
            salary |-> PyNone, location |-> PyNone, job_type |-> PyNone,
            requirements |-> PyNone]

Init ==
    /\ KEYWORDS = <<"Placement", "drive", "internship">>
    /\ GEMINI_AVAILABLE \in BOOLEAN
    /\ subject = "" /\ sender = "" /\ body = ""
    /\ response = NotCalled
    /\ analysis = NoResult
    /\ apc = "idle"
    /\ ScanIdle
    /\ ProfileIdle
    /\ inbox = <<>>
    /\ fetchMarksSeen \in BOOLEAN
    /\ lpc = "idle"
    /\ fetched = <<>>
    /\ pos = 0
    /\ processed = <<>>
    /\ cycleError = "none"
    /\ cycles = 0

\* A message arrives in the mailbox.
Deliver ==
    /\ Len(inbox) < MaxMessages
    /\ \E m \in MessageKinds : inbox' = Append(inbox, m)
    /\ UNCHANGED <<fetchMarksSeen, lpc, fetched, pos, processed, cycleError, cycles>>
    /\ UNCHANGED <<avars, svars, pvars>>

\* Lines 18-21: check_for_new_emails logs in and searches the unseen
\* messages; a failure is caught at line 54.
StartCycle ==
    /\ lpc = "idle"
    /\ \E connected \in BOOLEAN :
          IF connected
          THEN /\ fetched' = Fetch(inbox)
               /\ cycleError' = "none"
               /\ lpc' = "cycle"
          ELSE /\ fetched' = <<>>
               /\ cycleError' = "MailboxLoginError"
               /\ lpc' = cycle_except("MailboxLoginError")
    /\ pos' = 1
    /\ processed' = <<>>
    /\ UNCHANGED <<inbox, fetchMarksSeen, cycles>>
    /\ UNCHANGED <<avars, svars, pvars>>

\* Lines 21-52: one iteration of the loop over the fetched messages. An
\* exception of mailbox.flag leaves the loop and is caught at line 54.
ProcessMessage ==
    /\ lpc = "cycle"
    /\ pos <= Len(fetched)
    /\ \E resp \in (IF GEMINI_AVAILABLE THEN PollResponses ELSE {NotCalled}),
          service_ok \in BOOLEAN, flag_ok \in BOOLEAN :
          LET i == fetched[pos]
              msg == inbox[i]
              result_dict == analyze_placement_email(msg.subject, msg.sender, msg.body, resp)
              alerted == should_alert(result_dict)
              args == IF alerted THEN AlertArgs(msg.subject, result_dict) ELSE NoAlert
              sent == alerted /\ send_whatsapp_placement_alert(args, service_ok)
              flag_called == alerted /\ msg.uid # ""
              flagged == flag_called /\ flag_ok
          IN  /\ (~alerted => service_ok) /\ (~flag_called => flag_ok)
              /\ subject' = msg.subject /\ sender' = msg.sender /\ body' = msg.body
              /\ response' = resp
              /\ analysis' = result_dict
              /\ processed' = Append(processed,
                     [msg |-> i, verdict |-> result_dict["is_placement_related"],
                      alerted |-> alerted, delivered |-> sent, flagged |-> flagged])
              /\ inbox' = [inbox EXCEPT ![i].seen = fetchMarksSeen \/ flagged]
              /\ IF flag_called /\ ~flag_ok
                 THEN /\ cycleError' = "MailboxFlagError"
                      /\ lpc' = cycle_except("MailboxFlagError")
                 ELSE UNCHANGED <<cycleError, lpc>>
    /\ pos' = pos + 1
    /\ UNCHANGED <<fetchMarksSeen, fetched, cycles>>
    /\ UNCHANGED <<KEYWORDS, GEMINI_AVAILABLE, apc>>
    /\ UNCHANGED <<svars, pvars>>

\* The loop over the fetched messages is exhausted: the function returns.
EndCycle ==
    /\ lpc = "cycle"
    /\ pos > Len(fetched)
    /\ lpc' = "sleep"
    /\ UNCHANGED <<inbox, fetchMarksSeen, fetched, pos, processed, cycleError, cycles>>
    /\ UNCHANGED <<avars, svars, pvars>>

\* main.poll_email_loop, line 24: asyncio.sleep(60) ends, the loop goes on.
Sleep ==
    /\ lpc = "sleep"
    /\ cycles < MaxCycles
    /\ cycles' = cycles + 1
    /\ lpc' = "idle"
    /\ UNCHANGED <<inbox, fetchMarksSeen, fetched, pos, processed, cycleError>>
    /\ UNCHANGED <<avars, svars, pvars>>

Next == Deliver \/ StartCycle \/ ProcessMessage \/ EndCycle \/ Sleep

Spec == Init /\ [][Next]_vars

-----------------------------------------------------------------------------
(* One call of analyze_placement_email *)

InitAnalyze ==
    /\ KEYWORDS \in KeywordConfigs
    /\ GEMINI_AVAILABLE \in BOOLEAN
    /\ subject \in Subjects
    /\ sender \in Senders
    /\ body \in Bodies
    /\ response = NotCalled
    /\ analysis = NoResult
    /\ apc = "ready"
    /\ ScanIdle
    /\ ProfileIdle
    /\ PollIdle

\* The service is called only when the capability is available.
Analyze ==
    /\ apc = "ready"
    /\ \E resp \in (IF GEMINI_AVAILABLE THEN Responses ELSE {NotCalled}) :
          /\ response' = resp
          /\ analysis' = analyze_placement_email(subject, sender, body, resp)
    /\ apc' = "done"
    /\ UNCHANGED <<KEYWORDS, GEMINI_AVAILABLE, subject, sender, body>>
    /\ UNCHANGED <<svars, pvars, mvars>>

\* A direct call of the keyword analysis on the same arguments.
FallbackKeywords ==
    /\ apc = "ready"
    /\ analysis' = _fallback_analysis_keywords(subject, sender)
    /\ apc' = "kwdone"
    /\ UNCHANGED <<KEYWORDS, GEMINI_AVAILABLE, subject, sender, body, response>>
    /\ UNCHANGED <<svars, pvars, mvars>>

NextAnalyze == Analyze \/ FallbackKeywords

SpecAnalyze == InitAnalyze /\ [][NextAnalyze]_vars

-----------------------------------------------------------------------------
(* Claims about the placement analysis *)

\* C1: analyze_placement_email returns, for every subject, sender and body
\* (empty strings included) and every outcome of the classifier, a dictionary
\* in which every field of the classification result is present.
C1_AllFieldsPresent ==
    apc = "done" => /\ analysis # NoResult
                    /\ FieldNames \subseteq DOMAIN analysis

\* C1 witness: empty subject and sender, and the service answered with an
\* object that holds only the mandatory field.
C1_Witness ==
    /\ apc = "done" /\ subject = "" /\ sender = "" /\ body = ""
    /\ response = Text("", JsonObject([is_placement_related |-> PyBool(TRUE)]), "")
    /\ analysis["company"] = PyStr("Unknown")

\* The classifier failed: capability unavailable, transport error, empty
\* response, content that is no JSON, or JSON without is_placement_related.
ClassifierFailed ==
    \/ ~GEMINI_AVAILABLE
    \/ response.kind = "raises"
    \/ response = Text("", NoText, "")
    \/ json_loads(CleanedText(response)).exc # "none"
    \/ ~In("is_placement_related", json_loads(CleanedText(response)).val)

\* C2: whenever the classifier fails, the result equals the keyword matcher's
\* verdict with the fallback extractor's company and role and every other
\* field absent, which is what _fallback_analysis_keywords returns.
C2_FallbackIsKeywordAnalysis ==
    (apc = "done" /\ ClassifierFailed)
        => analysis = _fallback_analysis_keywords(subject, sender)

\* The department indicators and the keyword test as the claim words them.
DepartmentIndicators == {"placements", "cdc", "recruitment", "hr", "careers"}

SenderHasIndicator == \E ind \in DepartmentIndicators : Contains(ind, lower(sender))

SubjectHasKeyword ==
    \E i \in 1..Len(KEYWORDS) : Contains(lower(KEYWORDS[i]), lower(subject))

\* C3: the keyword matcher answers true exactly when the case-folded sender
\* contains a department indicator or the case-folded subject contains a
\* configured keyword.
C3_KeywordMatcherIff ==
    apc = "kwdone"
        => (analysis["is_placement_related"] = PyBool(SenderHasIndicator \/ SubjectHasKeyword))

\* C3 witness: the indicator is found in an upper-case sender, whatever the
\* subject holds.
C3_Witness ==
    /\ apc = "kwdone" /\ sender = "HR@Tcs.Com" /\ subject = "Weekend Sale - Up to 70% Off"
    /\ KEYWORDS = <<>>
    /\ analysis["is_placement_related"] = PyBool(TRUE)

\* C11: whenever the classifier fails, analyze_placement_email_llm signals
\* the failure to its caller by raising, and returns no result of its own.
C11_AdapterSignalsFailure ==
    (apc = "done" /\ ClassifierFailed)
        => analyze_placement_email_llm(subject, sender, body, response).exc # "none"

\* The least element of a non-empty set of positions.
Least(S) == CHOOSE i \in S : \A j \in S : i <= j

\* The company as the claim words it: the title-cased first label of the
\* (case-folded) domain, the text between the first '@' and the next one or
\* the end, unless there is no '@' or the domain contains 'placements' or
\* 'noreply'.
ExpectedCompany(sndr) ==
    LET ats == {i \in 1..Len(sndr) : CharAt(sndr, i) = "@"}
        first == Least(ats)
        later == ats \ {first}
        stop == IF later = {} THEN Len(sndr) + 1 ELSE Least(later)
        domain == lower(SubSeq(sndr, first + 1, stop - 1))
        dots == {i \in 1..Len(domain) : CharAt(domain, i) = "."}
        label == SubSeq(domain, 1, IF dots = {} THEN Len(domain) ELSE Least(dots) - 1)
    IN  IF ats = {} THEN "Unknown"
        ELSE IF Contains("placements", domain) \/ Contains("noreply", domain)
        THEN "Unknown"
        ELSE title(label)

RoleKeywords == <<"engineer", "developer", "analyst", "intern", "manager", "associate">>

\* The role as the claim words it: the keyword no earlier keyword of the
\* list precedes among those occurring in the case-folded subject.
ExpectedRole(subj) ==
    LET occurs == {i \in 1..Len(RoleKeywords) : Contains(RoleKeywords[i], lower(subj))}
    IN  IF occurs = {} THEN "Position"
        ELSE title(RoleKeywords[CHOOSE i \in occurs : \A j \in 1..(i - 1) : j \notin occurs])

\* C12: whenever a fallback analysis produced the result (the keyword
\* analysis, or analyze_placement_email after a classifier failure), company
\* and role are as worded above; and the TCS CodeVita subject from
\* hr@tcs.com with the classifier unavailable gives true, 'Tcs', 'Position'.
C12_FallbackExtractor ==
    /\ (apc = "kwdone" \/ (apc = "done" /\ ClassifierFailed))
          => /\ analysis["company"] = PyStr(ExpectedCompany(sender))
             /\ analysis["role"] = PyStr(ExpectedRole(subject))
    /\ (/\ apc = "done" /\ ~GEMINI_AVAILABLE
        /\ subject = "TCS CodeVita Contest - Win Job Offers" /\ sender = "hr@tcs.com")
          => analysis = BasicResult(TRUE, "Tcs", "Position")

\* C12 witness: the subject names analyst before engineer, the sender's
\* domain label has two cased runs, and the classifier is unavailable.
C12_Witness ==
    /\ apc = "done" /\ ~GEMINI_AVAILABLE
    /\ subject = "analyst Engineer" /\ sender = "chris@my-co.in"
    /\ analysis["role"] = PyStr("Engineer")
    /\ analysis["company"] = PyStr("My-Co")

\* C15: in every result analyze_placement_email returns,
\* is_placement_related is a boolean and company and role are strings,
\* whatever JSON value the service answered with for them.
C15_FieldTypes ==
    apc = "done"
        => /\ analysis["is_placement_related"].t = "bool"
           /\ analysis["company"].t = "str"
           /\ analysis["role"].t = "str"

-----------------------------------------------------------------------------
(* Claims about the attachment scanner *)

\* The file name as the loop sees it (line 50).
NameAt(k) == IF attachments[k].filename = "" THEN "unknown" ELSE attachments[k].filename

\* A recognized spreadsheet: the name ends, whatever its case, with one of
\* the four extensions.
Recognized(k) ==
    \E ext \in {".xlsx", ".xls", ".xlsm", ".xlsb"} : endswith(lower(NameAt(k)), ext)

RecognizedPositions == {k \in 1..Len(attachments) : Recognized(k)}

\* The payload of a recognized attachment cannot be parsed by the engine
\* chosen for it.
ParseFails(k) ==
    Recognized(k) /\ ~CanRead(ReadEngine(NameAt(k)), attachments[k].payload.format)

\* C4: when the attachments could be listed, a parse failure of one
\* spreadsheet does not end the scan: no error is raised or recorded, the
\* failing file is counted and has no entry in found_in_files, and every
\* recognized attachment of the message, before or after it, is counted and
\* searched.
C4_ParseFailureIsolated ==
    (spc = "done" /\ ~listRaised)
        => /\ result.error = PyNone
           /\ searched = RecognizedPositions
           /\ result.excel_attachments = Cardinality(RecognizedPositions)
           /\ \A k \in RecognizedPositions :
                 ParseFails(k) => \A e \in 1..Len(foundFrom) : foundFrom[e] # k

\* C4 witness: a corrupt spreadsheet first, then a readable one that holds
\* a search term.
C4_Witness ==
    /\ spc = "done"
    /\ Len(attachments) = 2
    /\ attachments[1].filename = "broken.xlsx"
    /\ attachments[2].filename = "RESULTS.XLSM"
    /\ ParseFails(1)
    /\ result.excel_attachments = 2
    /\ foundFrom = <<2>>
    /\ searched = {1, 2}

\* C5: after _search_excel_content has returned, on every exit path, the
\* temporary file it created is gone.
C5_TempFileRemoved == tempFiles = {}

\* C6: in every returned result name_found is true exactly when
\* found_in_files has an entry, and every entry lists at least one match.
C6_NameFoundIffEntries ==
    spc = "done"
        => /\ result.name_found <=> (result.found_in_files # <<>>)
           /\ \A e \in 1..Len(result.found_in_files) :
                 result.found_in_files[e].matches # <<>>

\* C6 witness: of two searched files one matched and the other did not.
C6_Witness ==
    /\ spc = "done"
    /\ result.name_found
    /\ Len(result.found_in_files) = 1
    /\ result.excel_attachments = 2

\* C7 as stated: in every returned result the two counters equal the number
\* of recognized spreadsheets and the number of attachments of the message.
C7_CountsAlways ==
    spc = "done"
        => /\ result.excel_attachments = Cardinality(RecognizedPositions)
           /\ result.total_attachments = Len(attachments)

\* C7 amended: the counters are exact in every returned result that records
\* no error, whether or not each spreadsheet was parsed.
C7_CountsWhenNoError ==
    (spc = "done" /\ result.error = PyNone)
        => /\ result.excel_attachments = Cardinality(RecognizedPositions)
           /\ result.total_attachments = Len(attachments)

\* C7 witness: a pdf and a corrupt spreadsheet: one of two is counted as a
\* spreadsheet.
C7_Witness ==
    /\ spc = "done" /\ result.error = PyNone
    /\ Len(attachments) = 2
    /\ attachments[1].filename = "notes.pdf"
    /\ attachments[2].filename = "broken.xlsx"
    /\ result.excel_attachments = 1
    /\ result.total_attachments = 2

\* C13: a result with no attachments is rendered as None, and the text
\* rendered for a result with name_found true contains every term of every
\* terms_found of found_in_files.
C13_SummaryNoneOrTerms ==
    spc = "formatted"
        => /\ (Len(attachments) = 0 \/ ~result.has_attachments) => summary = PyNone
           /\ result.name_found
                 => /\ summary.t = "str"
                    /\ \A e \in 1..Len(result.found_in_files) :
                          \A m \in 1..Len(result.found_in_files[e].matches) :
                             \A t \in 1..Len(result.found_in_files[e].matches[m].terms_found) :
                                Contains(result.found_in_files[e].matches[m].terms_found[t],
                                         summary.s)

\* C13 witness: a file with several terms in one sheet was rendered.
C13_Witness ==
    /\ spc = "formatted"
    /\ Len(attachments) = 1
    /\ attachments[1].filename = "shortlist.xlsx"
    /\ result.name_found
    /\ Contains("Akkilesh A, 22BCE1385, Akkilesh, 22BCE1385", summary.s)

\* The text of all cells of a sheet, flattened and case-folded.
CellText(sheet) == lower(join(sheet.header \o sheet.cells))

\* The search terms that occur in a sheet.
TermsIn(sheet) ==
    {SEARCH_TERMS[t] : t \in {u \in 1..Len(SEARCH_TERMS) :
                                 Contains(lower(SEARCH_TERMS[u]), CellText(sheet))}}

\* The payload is a workbook that can be opened.
Openable(k) == attachments[k].payload.format \in {"xlsx", "xls", "xlsb"}

\* The match entries recorded for the attachment at position k.
MatchesOf(k) ==
    IF \E e \in 1..Len(foundFrom) : foundFrom[e] = k
    THEN result.found_in_files[CHOOSE e \in 1..Len(foundFrom) : foundFrom[e] = k].matches
    ELSE <<>>

\* C14: for the recognized, openable spreadsheet searched last (with the
\* temporary file written without failure), every sheet that holds a term
\* has exactly one match entry, naming it and listing every term found in
\* it, and no other sheet has one; name_found is true when there is one.
C14_EverySheetSearched ==
    LET k == idx - 1
    IN  (/\ spc \in {"loop", "done"} /\ k \in searched /\ searchEnv.io = "ok"
         /\ Recognized(k) /\ Openable(k))
           => LET sheets == attachments[k].payload.sheets
                  matches == MatchesOf(k)
              IN  /\ \A i \in 1..Len(sheets) :
                        Cardinality({m \in 1..Len(matches) :
                                        matches[m].sheet = sheets[i].name})
                            = IF TermsIn(sheets[i]) = {} THEN 0 ELSE 1
                  /\ \A m \in 1..Len(matches) :
                        \E i \in 1..Len(sheets) :
                           /\ matches[m].sheet = sheets[i].name
                           /\ {matches[m].terms_found[t] :
                                  t \in 1..Len(matches[m].terms_found)} = TermsIn(sheets[i])
                  /\ (\E i \in 1..Len(sheets) : TermsIn(sheets[i]) # {}) => result.name_found

\* C17: whenever the error of a result is set, the rendered text ends with
\* the error note, which holds the error.
C17_ErrorNoteLast ==
    (spc = "formatted" /\ result.error # PyNone)
        => /\ summary.t = "str"
           /\ endswith(summary.s, result.error.s)
           /\ Contains("Error processing attachments: ", summary.s)

-----------------------------------------------------------------------------
(* Claims about the profile store and its endpoint *)

NoRecognizedNonEmptyField(posted) ==
    \A k \in (DOMAIN posted) \cap (DOMAIN DefaultProfile) : posted[k] = ""

\* C9: a POST whose mapping has no recognized non-empty field is answered
\* with a client error (4xx) and leaves the store unchanged.
C9_EmptyPostRejected ==
    (http.method = "POST" /\ NoRecognizedNonEmptyField(http.body))
        => /\ http.status \in 400..499
           /\ http.after = http.before

-----------------------------------------------------------------------------
(* Claims about the polling cycle *)

\* C10: the delivery sink is invoked for a message only when the
\* classification result's is_placement_related is true, and never for a
\* message whose result has it false.
C10_AlertOnlyWhenTrue ==
    \A k \in 1..Len(processed) :
        /\ processed[k].alerted => processed[k].verdict = PyBool(TRUE)
        /\ processed[k].verdict = PyBool(FALSE) => ~processed[k].alerted

\* C16: no failure inside a cycle stops the loop: an error ends the cycle
\* in the wait, the wait is left only for the next check, and a cycle starts
\* only from there, after the previous one has finished.
C16_LoopNeverStops ==
    /\ [](lpc \in {"idle", "cycle", "sleep"})
    /\ [][cycleError' # cycleError => (cycleError' = "none" \/ lpc' = "sleep")]_vars
    /\ [][(lpc = "sleep" /\ lpc' # "sleep") => (lpc' = "idle" /\ cycles' = cycles + 1)]_vars
    /\ [][(lpc' = "cycle" /\ lpc # "cycle") => (lpc = "idle" /\ pos' = 1)]_vars
    /\ [][(lpc = "cycle" /\ lpc' = "cycle") => pos' >= pos]_vars

\* C16 witness: the delivery failed for a message and flagging it failed
\* too; the cycle ended and the wait after it is over.
C16_Witness ==
    /\ lpc = "idle" /\ cycles = 1
    /\ cycleError = "MailboxFlagError"
    /\ Len(processed) = 1
    /\ processed[1].alerted /\ ~processed[1].delivered /\ ~processed[1].flagged

\* C18: a message is flagged only if its result's is_placement_related is
\* true and the delivery sink was invoked for it; a message whose result is
\* not placement-related is not flagged and is not left seen by the cycle;
\* a failed delivery does not prevent the flagging, and every fetched
\* message is processed unless flagging raised.
C18_FlagOnlyAfterAlert ==
    /\ \A k \in 1..Len(processed) :
          /\ processed[k].flagged
                => (processed[k].verdict = PyBool(TRUE) /\ processed[k].alerted)
          /\ processed[k].verdict # PyBool(TRUE)
                => (~processed[k].flagged /\ ~inbox[processed[k].msg].seen)
          /\ (processed[k].alerted /\ ~processed[k].delivered
                 /\ inbox[processed[k].msg].uid # "" /\ cycleError = "none")
                => processed[k].flagged
    /\ (lpc = "sleep" /\ cycleError = "none") => Len(processed) = Len(fetched)

====
